---- MODULE Spec2Model ----
(***************************************************************************)
(* A model of the draft-analysis data-collection scripts:                  *)
(*   - normalize_name and find_players_with_debug of                       *)
(*     scripts/targeted_player_scraper.py (the fuzzy identity matcher),    *)
(*   - the retry loop of scripts/fbrefscraper.py main() and                *)
(*     scripts/multi_league_scraper.py scrape_league(), and the single     *)
(*     fetch of scripts/targeted_player_scraper.py, with the browser       *)
(*     session each main() opens and closes,                               *)
(*   - validate_stats_file, import_player_stats and the `import` command   *)
(*     of import_collected_stats.py.                                       *)
(* Each part has its own specification (SpecNorm, SpecMatch, SpecRetry and *)
(* SpecScrapers, SpecImport) over its own variables; the other parts'      *)
(* variables rest.                                                         *)
(***************************************************************************)
EXTENDS Integers, Sequences, FiniteSets, TLC

VARIABLES
    \* normalize_name applied once and twice
    npc, nIn, nOnce, nTwice,
    \* find_players_with_debug
    mpc, df, target_players, ti, ri, found_players, player_found, examined,
    report,
    \* the retry loop
    scraper, pc, driver, league, resIdx, attempt, dataframes, outcomes,
    sleeps, pauses, quits, escaped,
    \* import_player_stats
    ipc, disk, backup, stats_file, validated, fpl_data, collected_stats,
    player_dict, ui, updated_count, not_found_count, change_log, result,
    \* the `import` command: the shape of the stats file, the report of
    \* validate_stats_file, and a second run of the command on the same file
    shape, verdict, run, first_disk, earlier_backup

normVars == <<npc, nIn, nOnce, nTwice>>
matchVars == <<mpc, df, target_players, ti, ri, found_players, player_found,
               examined, report>>
retryVars == <<scraper, pc, driver, league, resIdx, attempt, dataframes,
               outcomes, sleeps, pauses, quits, escaped>>
importVars == <<ipc, disk, backup, stats_file, validated, fpl_data,
                collected_stats, player_dict, ui, updated_count,
                not_found_count, change_log, result, shape, verdict, run,
                first_disk, earlier_backup>>
vars == <<normVars, matchVars, retryVars, importVars>>

(***************************************************************************)
(* Rest values of each part's variables                                    *)
(***************************************************************************)
NormRest ==
    /\ npc = "rest" /\ nIn = <<>> /\ nOnce = <<>> /\ nTwice = <<>>

MatchRest ==
    /\ mpc = "rest" /\ df = <<>> /\ target_players = <<>>
    /\ ti = 0 /\ ri = 0 /\ found_players = <<>> /\ player_found = FALSE
    /\ examined = <<>> /\ report = <<>>

RetryRest ==
    /\ scraper = "none" /\ pc = "rest" /\ driver = "none"
    /\ league = 0 /\ resIdx = 0 /\ attempt = 0 /\ dataframes = <<>>
    /\ outcomes = <<>> /\ sleeps = <<>> /\ pauses = 0 /\ quits = 0
    /\ escaped = 0

ImportRest ==
    /\ ipc = "rest" /\ disk = <<>> /\ backup = <<>> /\ stats_file = <<>>
    /\ validated = FALSE /\ fpl_data = <<>> /\ collected_stats = <<>>
    /\ player_dict = <<>> /\ ui = 0 /\ updated_count = 0
    /\ not_found_count = 0 /\ change_log = <<>> /\ result = "none"
    /\ shape = "none" /\ verdict = <<>> /\ run = 0 /\ first_disk = <<>>
    /\ earlier_backup = <<>>

(***************************************************************************)
(* Strings.  A string is a sequence of characters; a character is written  *)
(* as a short TLA+ string.  Non-ASCII characters have ASCII stand-ins:     *)
(*   "a'"  a-acute (U+00E1)        "A'"  A-acute (U+00C1)                  *)
(*   "I*"  I-with-dot (U+0130)     "*"   combining dot above (U+0307)      *)
(*   "\t"  tab                                                             *)
(* "." stands for any punctuation, "_" is the underscore (a \w character). *)
(***************************************************************************)

\* str.lower() of one character; U+0130 lower-cases to "i" + U+0307.
LowerChar(c) ==
    CASE c = "A" -> <<"a">>
      [] c = "B" -> <<"b">>
      [] c = "A'" -> <<"a'">>
      [] c = "I*" -> <<"i", "*">>
      [] OTHER -> <<c>>

RECURSIVE Lower(_)
Lower(s) == IF s = <<>> THEN <<>> ELSE LowerChar(Head(s)) \o Lower(Tail(s))

\* str.isspace(), which is also what \s matches
IsSpace(c) == c \in {" ", "\t"}

\* what \w matches: letters, digits and the underscore
IsWord(c) == c \in {"a", "b", "c", "i", "n", "u", "A", "B", "a'", "A'", "I*", "_"}

RECURSIVE LStrip(_)
LStrip(s) == IF s # <<>> /\ IsSpace(Head(s)) THEN LStrip(Tail(s)) ELSE s

RECURSIVE RStrip(_)
RStrip(s) ==
    IF s # <<>> /\ IsSpace(s[Len(s)]) THEN RStrip(SubSeq(s, 1, Len(s) - 1))
    ELSE s

\* str.strip()
Strip(s) == RStrip(LStrip(s))

\* re.sub(r'[àáâãäå]', 'a', ...) and the six substitutions after it
FoldChar(c) == IF c = "a'" THEN "a" ELSE c

Fold(s) == [i \in 1..Len(s) |-> FoldChar(s[i])]

\* re.sub(r'[^\w\s]', ' ', ...)
Punct(s) ==
    [i \in 1..Len(s) |-> IF IsWord(s[i]) \/ IsSpace(s[i]) THEN s[i] ELSE " "]

\* re.sub(r'\s+', ' ', ...)
RECURSIVE Collapse(_)
Collapse(s) ==
    IF s = <<>> THEN <<>>
    ELSE IF IsSpace(Head(s)) THEN <<" ">> \o Collapse(LStrip(s))
    ELSE <<Head(s)>> \o Collapse(Tail(s))

\* a slip: the accents are folded before the string is lower-cased
normalize_name_fold_first(name) ==
    IF name = <<>> THEN <<>>
    ELSE Strip(Collapse(Punct(Strip(Lower(Fold(name))))))

normalize_name(name) ==
    IF name = <<>> THEN <<>>
    ELSE Strip(Collapse(Punct(Fold(Strip(Lower(name))))))

\* Python's `x in y` on two strings
IsSubstring(x, y) ==
    \E i \in 0..(Len(y) - Len(x)) : SubSeq(y, i + 1, i + Len(x)) = x

(***************************************************************************)
(* Bounds                                                                  *)
(***************************************************************************)
MaxLen == 3

NormAlphabet == {"a", "A", "a'", "A'", "I*", " ", "\t", ".", "_"}

RECURSIVE StringsUpTo(_, _)
StringsUpTo(alphabet, n) ==
    IF n = 0 THEN {<<>>}
    ELSE LET shorter == StringsUpTo(alphabet, n - 1)
         IN  shorter \cup {Append(s, c) : s \in shorter, c \in alphabet}

(***************************************************************************)
(* The fuzzy identity matcher: find_players_with_debug                     *)
(***************************************************************************)

\* A table cell is a string or pandas' NaN (what read_html leaves for an
\* empty cell).  A row maps the columns the table has, among Player and
\* Squad, to cells; the table always has other columns (Min, Gls, ...), so
\* df.empty means: no rows.
Str(s) == [kind |-> "str", val |-> s]
NaN == [kind |-> "nan", val |-> <<>>]

\* str(x) for a cell value x
StrOf(cell) == IF cell.kind = "nan" THEN <<"n", "a", "n">> ELSE cell.val

\* a slip: the default of row.get(col, 'Unknown'), used for the club report
RowGet_unknown(row, col) ==
    IF col \in DOMAIN row THEN row[col] ELSE Str(<<"u", "n">>)

\* row.get(col, '')
RowGet(row, col) == IF col \in DOMAIN row THEN row[col] ELSE Str(<<>>)

\* a slip: the alternate spellings are left out
NameVariants_primary_only(target) == <<target.primary_name>>

\* [primary_name] + alt_names, [club] + alt_clubs
NameVariants(target) == <<target.primary_name>> \o target.alt_names
ClubVariants(target) == <<target.club>> \o target.alt_clubs

\* a slip: containment is tested in one direction only
RECURSIVE AnyVariantContained(_, _)
AnyVariantContained(variants, norm_cand) ==
    IF variants = <<>> THEN FALSE
    ELSE IF IsSubstring(normalize_name(Head(variants)), norm_cand) THEN TRUE
    ELSE AnyVariantContained(Tail(variants), norm_cand)

\* the loop over the variants: the first variant that contains, or is
\* contained in, the candidate ends it
RECURSIVE AnyVariantMatches(_, _)
AnyVariantMatches(variants, norm_cand) ==
    IF variants = <<>> THEN FALSE
    ELSE LET norm_target == normalize_name(Head(variants))
         IN  IF \/ IsSubstring(norm_target, norm_cand)
                \/ IsSubstring(norm_cand, norm_target)
             THEN TRUE
             ELSE AnyVariantMatches(Tail(variants), norm_cand)

norm_player(row) == normalize_name(StrOf(RowGet(row, "Player")))
norm_team(row) == normalize_name(StrOf(RowGet(row, "Squad")))

name_matches(target, row) ==
    AnyVariantMatches(NameVariants(target), norm_player(row))

club_matches(target, row) ==
    AnyVariantMatches(ClubVariants(target), norm_team(row))

\* a slip: `or` for `and`
Accepts_either(target, row) ==
    name_matches(target, row) \/ club_matches(target, row)

\* the test of `if name_matches and club_matches`
Accepts(target, row) ==
    name_matches(target, row) /\ club_matches(target, row)

\* the diagnostic printed for an examined row
Diagnostic(target, row) ==
    IF Accepts(target, row) THEN "found"
    ELSE IF name_matches(target, row) THEN "name_only"
    ELSE IF club_matches(target, row) THEN "club_only"
    ELSE "none"

\* Inputs of the matcher
MaxRows == 2

CandNames ==
    {Str(<<>>), Str(<<"A'", "b">>), Str(<<"a">>), Str(<<"c">>), NaN}

CandSquads == {Str(<<>>), Str(<<"B">>), Str(<<"c">>)}

CellsOf(col) == IF col = "Player" THEN CandNames ELSE CandSquads

RowsWith(cols) == {r \in [cols -> CandNames \cup CandSquads] :
                      \A c \in cols : r[c] \in CellsOf(c)}

RECURSIVE TablesUpTo(_, _)
TablesUpTo(rows, n) ==
    IF n = 0 THEN {<<>>}
    ELSE LET shorter == TablesUpTo(rows, n - 1)
         IN  shorter \cup {Append(t, r) : t \in shorter, r \in rows}

Tables ==
    UNION {TablesUpTo(RowsWith(cols), MaxRows) :
              cols \in SUBSET {"Player", "Squad"}}

TargetAb ==
    [primary_name |-> <<"a", "b">>, alt_names |-> << <<"c", ".">> >>,
     club |-> <<"b">>, alt_clubs |-> << <<"B", ".">> >>]

TargetA ==
    [primary_name |-> <<"a">>, alt_names |-> << >>,
     club |-> <<"c">>, alt_clubs |-> << >>]

TargetLists ==
    {<<TargetAb>>, <<TargetA>>, <<TargetAb, TargetA>>, <<TargetA, TargetAb>>,
     <<TargetAb, TargetAb>>}

MatchInit ==
    /\ mpc = "start"
    /\ df \in Tables
    /\ target_players \in TargetLists
    /\ ti = 0 /\ ri = 0
    /\ found_players = <<>>
    /\ player_found = FALSE
    /\ examined = <<>>
    /\ report = <<>>
    /\ NormRest /\ RetryRest /\ ImportRest

\* if df.empty: return pd.DataFrame()
MatchEmptyTable ==
    /\ mpc = "start"
    /\ df = <<>>
    /\ mpc' = "done"
    /\ UNCHANGED <<df, target_players, ti, ri, found_players, player_found,
                   examined, report>>
    /\ UNCHANGED <<normVars, retryVars, importVars>>

MatchStart ==
    /\ mpc = "start"
    /\ df # <<>>
    /\ mpc' = "targets"
    /\ UNCHANGED <<df, target_players, ti, ri, found_players, player_found,
                   examined, report>>
    /\ UNCHANGED <<normVars, retryVars, importVars>>

\* for target in target_players: ... player_found = False
NextTarget ==
    /\ mpc = "targets"
    /\ ti < Len(target_players)
    /\ ti' = ti + 1
    /\ ri' = 0
    /\ player_found' = FALSE
    /\ examined' = Append(examined, 0)
    /\ mpc' = "rows"
    /\ UNCHANGED <<df, target_players, found_players, report>>
    /\ UNCHANGED <<normVars, retryVars, importVars>>

\* a slip: the row loop goes on after a candidate is accepted
ExamineRow_no_break ==
    /\ mpc = "rows"
    /\ ri < Len(df)
    /\ LET row == df[ri + 1]
           target == target_players[ti]
       IN  /\ ri' = ri + 1
           /\ examined' = [examined EXCEPT ![ti] = @ + 1]
           /\ report' = Append(report, [target |-> ti, idx |-> ri + 1,
                                        out |-> Diagnostic(target, row)])
           /\ IF Accepts(target, row)
              THEN /\ found_players' = Append(found_players,
                          [row |-> row, idx |-> ri + 1, target |-> ti])
                   /\ player_found' = TRUE
                   /\ mpc' = "rows"
              ELSE /\ UNCHANGED <<found_players, player_found, mpc>>
    /\ UNCHANGED <<df, target_players, ti>>
    /\ UNCHANGED <<normVars, retryVars, importVars>>

\* one pass of `for _, row in df.iterrows()`: the row is compared with the
\* target; an accepted row is appended and ends the loop over the rows
ExamineRow ==
    /\ mpc = "rows"
    /\ ri < Len(df)
    /\ LET row == df[ri + 1]
           target == target_players[ti]
       IN  /\ ri' = ri + 1
           /\ examined' = [examined EXCEPT ![ti] = @ + 1]
           /\ report' = Append(report, [target |-> ti, idx |-> ri + 1,
                                        out |-> Diagnostic(target, row)])
           /\ IF Accepts(target, row)
              THEN /\ found_players' = Append(found_players,
                          [row |-> row, idx |-> ri + 1, target |-> ti])
                   /\ player_found' = TRUE
                   /\ mpc' = "targets"
              ELSE /\ UNCHANGED <<found_players, player_found, mpc>>
    /\ UNCHANGED <<df, target_players, ti>>
    /\ UNCHANGED <<normVars, retryVars, importVars>>

\* the rows are used up: `if not player_found` reports NOT FOUND (and the
\* players of the target's club, a printed diagnostic)
RowsExhausted ==
    /\ mpc = "rows"
    /\ ri = Len(df)
    /\ report' = IF player_found THEN report
                 ELSE Append(report, [target |-> ti, idx |-> 0,
                                      out |-> "not_found"])
    /\ mpc' = "targets"
    /\ UNCHANGED <<df, target_players, ti, ri, found_players, player_found,
                   examined>>
    /\ UNCHANGED <<normVars, retryVars, importVars>>

\* return pd.DataFrame(found_players) or an empty frame
MatchReturn ==
    /\ mpc = "targets"
    /\ ti = Len(target_players)
    /\ mpc' = "done"
    /\ UNCHANGED <<df, target_players, ti, ri, found_players, player_found,
                   examined, report>>
    /\ UNCHANGED <<normVars, retryVars, importVars>>

MatchNext ==
    \/ MatchEmptyTable
    \/ MatchStart
    \/ NextTarget
    \/ ExamineRow
    \/ RowsExhausted
    \/ MatchReturn

SpecMatch == MatchInit /\ [][MatchNext]_vars

(***************************************************************************)
(* The retry loop: main() of fbrefscraper.py, and main() with              *)
(* scrape_league() of multi_league_scraper.py; main() with                 *)
(* scrape_targeted_players() of targeted_player_scraper.py                 *)
(***************************************************************************)
MAX_RETRIES == 3

\* the stat types of URLS / build_urls_for_league (six in the scripts)
NumResources == 2
\* the leagues of LEAGUE_CONFIGS (six in the script)
NumLeagues == 2

\* A table is the set of the players of its rows; pd.DataFrame() is empty.
EmptyFrame == {}
TargetPlayerNames == {"p"}
FetchedTables == {{"p", "q"}, {"q"}}

\* filter_players_from_df: the rows whose player is a target
filter_players_from_df(table) == table \cap TargetPlayerNames

\* what a successful attempt stores in dataframes[stat_type]
Stored(table) ==
    IF scraper = "multi" THEN filter_players_from_df(table) ELSE table

\* dataframes[key] = value
DictSet(dict, key, value) ==
    [k \in DOMAIN dict \cup {key} |-> IF k = key THEN value ELSE dict[k]]

NoOutcomes == [r \in 1..NumResources |-> <<>>]
NoSleeps == [r \in 1..NumResources |-> 0]

RetryInit ==
    /\ scraper \in {"fbref", "multi"}
    /\ pc = "init"
    /\ driver = "none"
    /\ league = 0
    /\ resIdx = 0
    /\ attempt = 0
    /\ dataframes = <<>>
    /\ outcomes = NoOutcomes
    /\ sleeps = NoSleeps
    /\ pauses = 0
    /\ quits = 0
    /\ escaped = 0
    /\ NormRest /\ MatchRest /\ ImportRest

\* driver = uc.Chrome(...); the try block is entered
Acquire ==
    /\ pc = "init"
    /\ driver' = "open"
    /\ pc' = CASE scraper = "multi" -> "leagues"
                [] scraper = "targeted" -> "targets"
                [] OTHER -> "resources"
    /\ UNCHANGED <<scraper, league, resIdx, attempt, dataframes, outcomes,
                   sleeps, pauses, quits, escaped>>
    /\ UNCHANGED <<normVars, matchVars, importVars>>

\* multi: for league_name, league_config in LEAGUE_CONFIGS.items():
\*            scrape_league(...) starts with dataframes = {}
\* (outcomes and sleeps, the record of the attempts, are kept per call)
NextLeague ==
    /\ pc = "leagues"
    /\ league < NumLeagues
    /\ league' = league + 1
    /\ resIdx' = 0
    /\ dataframes' = <<>>
    /\ outcomes' = NoOutcomes
    /\ sleeps' = NoSleeps
    /\ pc' = "resources"
    /\ UNCHANGED <<scraper, driver, attempt, pauses, quits, escaped>>
    /\ UNCHANGED <<normVars, matchVars, importVars>>

LeaguesDone ==
    /\ pc = "leagues"
    /\ league = NumLeagues
    /\ pc' = "finally"
    /\ UNCHANGED <<scraper, driver, league, resIdx, attempt, dataframes,
                   outcomes, sleeps, pauses, quits, escaped>>
    /\ UNCHANGED <<normVars, matchVars, importVars>>

\* a slip: the attempt counter is not started again for the next resource
NextResource_keep_attempt ==
    /\ pc = "resources"
    /\ resIdx < NumResources
    /\ resIdx' = resIdx + 1
    /\ pc' = "attempt"
    /\ UNCHANGED <<scraper, driver, league, attempt, dataframes, outcomes,
                   sleeps, pauses, quits, escaped>>
    /\ UNCHANGED <<normVars, matchVars, importVars>>

\* for stat_type, url in URLS.items(): for attempt in range(MAX_RETRIES):
NextResource ==
    /\ pc = "resources"
    /\ resIdx < NumResources
    /\ resIdx' = resIdx + 1
    /\ attempt' = 0
    /\ pc' = "attempt"
    /\ UNCHANGED <<scraper, driver, league, dataframes, outcomes, sleeps,
                   pauses, quits, escaped>>
    /\ UNCHANGED <<normVars, matchVars, importVars>>

\* the loop over the resources ends: fbref leaves the try block,
\* scrape_league returns dataframes to main's loop over the leagues
ResourcesDone ==
    /\ pc = "resources"
    /\ resIdx = NumResources
    /\ pc' = IF scraper = "multi" THEN "leagues" ELSE "finally"
    /\ UNCHANGED <<scraper, driver, league, resIdx, attempt, dataframes,
                   outcomes, sleeps, pauses, quits, escaped>>
    /\ UNCHANGED <<normVars, matchVars, importVars>>

\* a slip: no break after a successful attempt
FetchOk_no_break ==
    /\ pc = "attempt"
    /\ attempt < MAX_RETRIES
    /\ \E table \in FetchedTables :
           /\ dataframes' = DictSet(dataframes, resIdx, Stored(table))
           /\ outcomes' = [outcomes EXCEPT ![resIdx] =
                              Append(@, [kind |-> "ok", table |-> table])]
    /\ IF attempt + 1 < MAX_RETRIES
       THEN attempt' = attempt + 1 /\ pc' = "attempt"
       ELSE attempt' = attempt /\ pc' = "pause"
    /\ UNCHANGED <<scraper, driver, league, resIdx, sleeps, pauses, quits,
                   escaped>>
    /\ UNCHANGED <<normVars, matchVars, importVars>>

\* get_table_as_df returns a table: it is stored and `break` ends the
\* attempts on this resource
FetchOk ==
    /\ pc = "attempt"
    /\ attempt < MAX_RETRIES
    /\ \E table \in FetchedTables :
           /\ dataframes' = DictSet(dataframes, resIdx, Stored(table))
           /\ outcomes' = [outcomes EXCEPT ![resIdx] =
                              Append(@, [kind |-> "ok", table |-> table])]
    /\ pc' = "pause"
    /\ UNCHANGED <<scraper, driver, league, resIdx, attempt, sleeps, pauses,
                   quits, escaped>>
    /\ UNCHANGED <<normVars, matchVars, importVars>>

\* a slip: the last attempt is tested as attempt == MAX_RETRIES
FetchFail_off_by_one ==
    /\ pc = "attempt"
    /\ attempt < MAX_RETRIES
    /\ outcomes' = [outcomes EXCEPT ![resIdx] =
                       Append(@, [kind |-> "fail", table |-> EmptyFrame])]
    /\ IF attempt = MAX_RETRIES
       THEN /\ dataframes' = DictSet(dataframes, resIdx, EmptyFrame)
            /\ UNCHANGED sleeps
       ELSE /\ sleeps' = [sleeps EXCEPT ![resIdx] = @ + 1]
            /\ UNCHANGED dataframes
    /\ IF attempt + 1 < MAX_RETRIES
       THEN attempt' = attempt + 1 /\ pc' = "attempt"
       ELSE attempt' = attempt /\ pc' = "pause"
    /\ UNCHANGED <<scraper, driver, league, resIdx, pauses, quits, escaped>>
    /\ UNCHANGED <<normVars, matchVars, importVars>>

\* a slip: the last failure is raised again and ends the run
FetchFail_give_up ==
    /\ pc = "attempt"
    /\ attempt < MAX_RETRIES
    /\ outcomes' = [outcomes EXCEPT ![resIdx] =
                       Append(@, [kind |-> "fail", table |-> EmptyFrame])]
    /\ IF attempt + 1 = MAX_RETRIES
       THEN /\ dataframes' = DictSet(dataframes, resIdx, EmptyFrame)
            /\ UNCHANGED sleeps
       ELSE /\ sleeps' = [sleeps EXCEPT ![resIdx] = @ + 1]
            /\ UNCHANGED dataframes
    /\ IF attempt + 1 < MAX_RETRIES
       THEN attempt' = attempt + 1 /\ pc' = "attempt"
       ELSE attempt' = attempt /\ pc' = "finally"
    /\ UNCHANGED <<scraper, driver, league, resIdx, pauses, quits, escaped>>
    /\ UNCHANGED <<normVars, matchVars, importVars>>

\* get_table_as_df raises an Exception (table not found, timeout, parse
\* error): on the last attempt the empty frame is stored and the loop over
\* the attempts ends, otherwise RETRY_DELAY is slept and the next attempt
\* follows
FetchFail ==
    /\ pc = "attempt"
    /\ attempt < MAX_RETRIES
    /\ outcomes' = [outcomes EXCEPT ![resIdx] =
                       Append(@, [kind |-> "fail", table |-> EmptyFrame])]
    /\ IF attempt + 1 = MAX_RETRIES
       THEN /\ dataframes' = DictSet(dataframes, resIdx, EmptyFrame)
            /\ UNCHANGED sleeps
       ELSE /\ sleeps' = [sleeps EXCEPT ![resIdx] = @ + 1]
            /\ UNCHANGED dataframes
    /\ IF attempt + 1 < MAX_RETRIES
       THEN attempt' = attempt + 1 /\ pc' = "attempt"
       ELSE attempt' = attempt /\ pc' = "pause"
    /\ UNCHANGED <<scraper, driver, league, resIdx, pauses, quits, escaped>>
    /\ UNCHANGED <<normVars, matchVars, importVars>>

\* something that is not an Exception (KeyboardInterrupt, SystemExit) is
\* raised during the attempt: `except Exception` does not catch it, and it
\* leaves the try block through `finally`
FetchInterrupt ==
    /\ pc = "attempt"
    /\ attempt < MAX_RETRIES
    /\ outcomes' = [outcomes EXCEPT ![resIdx] =
                       Append(@, [kind |-> "interrupt", table |-> EmptyFrame])]
    /\ escaped' = resIdx
    /\ pc' = "finally"
    /\ UNCHANGED <<scraper, driver, league, resIdx, attempt, dataframes,
                   sleeps, pauses, quits>>
    /\ UNCHANGED <<normVars, matchVars, importVars>>

\* time.sleep(2) between two resources
Pause ==
    /\ pc = "pause"
    /\ pauses' = pauses + 1
    /\ pc' = "resources"
    /\ UNCHANGED <<scraper, driver, league, resIdx, attempt, dataframes,
                   outcomes, sleeps, quits, escaped>>
    /\ UNCHANGED <<normVars, matchVars, importVars>>

\* a slip: driver.quit() after the loop, not in a finally clause
Quit_not_finally ==
    /\ pc = "finally"
    /\ driver' = IF escaped > 0 THEN driver ELSE "closed"
    /\ quits' = IF escaped > 0 THEN quits ELSE quits + 1
    /\ pc' = IF escaped > 0 THEN "raised" ELSE "done"
    /\ UNCHANGED <<scraper, league, resIdx, attempt, dataframes, outcomes,
                   sleeps, pauses, escaped>>
    /\ UNCHANGED <<normVars, matchVars, importVars>>

\* finally: driver.quit()
Quit ==
    /\ pc = "finally"
    /\ driver' = "closed"
    /\ quits' = quits + 1
    /\ pc' = IF escaped > 0 THEN "raised" ELSE "done"
    /\ UNCHANGED <<scraper, league, resIdx, attempt, dataframes, outcomes,
                   sleeps, pauses, escaped>>
    /\ UNCHANGED <<normVars, matchVars, importVars>>

RetryNext ==
    \/ Acquire
    \/ NextLeague
    \/ LeaguesDone
    \/ NextResource
    \/ ResourcesDone
    \/ FetchOk
    \/ FetchFail
    \/ FetchInterrupt
    \/ Pause
    \/ Quit

SpecRetry == RetryInit /\ [][RetryNext]_vars

\* The program is one thread that goes on until main() returns or raises;
\* every call it makes returns or raises (the waits have timeouts).
SpecRetryFair == SpecRetry /\ WF_vars(RetryNext)

(***************************************************************************)
(* The three scrapers: the two above and targeted_player_scraper.py, whose *)
(* scrape_targeted_players fetches one table per league in one try block.  *)
(***************************************************************************)

\* find_players_with_debug(df, ...) on a table written as a set of players
FoundPlayers(table) == table \cap TargetPlayerNames

\* `escaped` when what is raised is raised outside the attempts
OutsideAttempts == NumResources + 1

ScrapersInit ==
    /\ scraper \in {"fbref", "multi", "targeted"}
    /\ pc = "init"
    /\ driver = "none"
    /\ league = 0
    /\ resIdx = 0
    /\ attempt = 0
    /\ dataframes = <<>>
    /\ outcomes = NoOutcomes
    /\ sleeps = NoSleeps
    /\ pauses = 0
    /\ quits = 0
    /\ escaped = 0
    /\ NormRest /\ MatchRest /\ ImportRest

\* targeted: for league_name, league_config in TARGET_PLAYERS.items():
\*               scrape_targeted_players(...), its one table is "standard"
TargetedNextLeague ==
    /\ pc = "targets"
    /\ league < NumLeagues
    /\ league' = league + 1
    /\ resIdx' = 1
    /\ attempt' = 0
    /\ dataframes' = <<>>
    /\ outcomes' = NoOutcomes
    /\ sleeps' = NoSleeps
    /\ pc' = "single"
    /\ UNCHANGED <<scraper, driver, pauses, quits, escaped>>
    /\ UNCHANGED <<normVars, matchVars, importVars>>

\* get_table_as_df returns a table: {"standard": filtered_df} is returned
TargetedFetchOk ==
    /\ pc = "single"
    /\ \E table \in FetchedTables :
           /\ dataframes' = DictSet(dataframes, resIdx, FoundPlayers(table))
           /\ outcomes' = [outcomes EXCEPT ![resIdx] =
                              Append(@, [kind |-> "ok", table |-> table])]
    /\ attempt' = attempt + 1
    /\ pc' = "targets"
    /\ UNCHANGED <<scraper, driver, league, resIdx, sleeps, pauses, quits,
                   escaped>>
    /\ UNCHANGED <<normVars, matchVars, importVars>>

\* get_table_as_df (or find_players_with_debug) raises an Exception:
\* {"standard": pd.DataFrame()} is returned at once
TargetedFetchFail ==
    /\ pc = "single"
    /\ outcomes' = [outcomes EXCEPT ![resIdx] =
                       Append(@, [kind |-> "fail", table |-> EmptyFrame])]
    /\ dataframes' = DictSet(dataframes, resIdx, EmptyFrame)
    /\ attempt' = attempt + 1
    /\ pc' = "targets"
    /\ UNCHANGED <<scraper, driver, league, resIdx, sleeps, pauses, quits,
                   escaped>>
    /\ UNCHANGED <<normVars, matchVars, importVars>>

TargetedDone ==
    /\ pc = "targets"
    /\ league = NumLeagues
    /\ pc' = "finally"
    /\ UNCHANGED <<scraper, driver, league, resIdx, attempt, dataframes,
                   outcomes, sleeps, pauses, quits, escaped>>
    /\ UNCHANGED <<normVars, matchVars, importVars>>

\* Something is raised inside main's try block and outside the attempts
\* of the retry loop: KeyboardInterrupt during a sleep or the one fetch of
\* the targeted scraper, an error of merge_league_data or
\* clean_and_format_data between two leagues.  Nothing catches it but
\* `finally`.
Interrupted ==
    /\ pc \in {"leagues", "resources", "pause", "targets", "single"}
    /\ escaped' = OutsideAttempts
    /\ pc' = "finally"
    /\ UNCHANGED <<scraper, driver, league, resIdx, attempt, dataframes,
                   outcomes, sleeps, pauses, quits>>
    /\ UNCHANGED <<normVars, matchVars, importVars>>

ScrapersNext ==
    \/ RetryNext
    \/ TargetedNextLeague
    \/ TargetedFetchOk
    \/ TargetedFetchFail
    \/ TargetedDone
    \/ Interrupted

SpecScrapers == ScrapersInit /\ [][ScrapersNext]_vars

SpecScrapersFair == SpecScrapers /\ WF_vars(ScrapersNext)

\* the attempts on resource r are over
Settled(r) == r < resIdx \/ (r = resIdx /\ pc # "attempt")

Kinds(r) == {outcomes[r][i].kind : i \in 1..Len(outcomes[r])}

\* C1: a resource whose every attempt failed is attempted MAX_RETRIES
\* times, no more and no less; the empty frame is then stored for it, and
\* its failures do not leave the loop.
C1_AlwaysFailingGivesEmpty ==
    \A r \in 1..NumResources :
        Kinds(r) = {"fail"} =>
            /\ Len(outcomes[r]) <= MAX_RETRIES
            /\ Settled(r) <=> Len(outcomes[r]) = MAX_RETRIES
            /\ Settled(r) => r \in DOMAIN dataframes
                             /\ dataframes[r] = EmptyFrame
            /\ escaped # r

\* the first resource failed MAX_RETRIES times and the loop went on to the
\* second one
C1_Witness ==
    /\ Len(outcomes[1]) = MAX_RETRIES
    /\ Kinds(1) = {"fail"}
    /\ resIdx = 2
    /\ pc = "attempt"

\* outcomes[r] is k failures followed by one success
FailsThenOk(r, k) ==
    /\ Len(outcomes[r]) = k + 1
    /\ \A i \in 1..k : outcomes[r][i].kind = "fail"
    /\ outcomes[r][k + 1].kind = "ok"

\* C2: a resource that fails k < MAX_RETRIES times and then succeeds has
\* been attempted k + 1 times; the table of the successful attempt is what
\* is stored; RETRY_DELAY was slept k times; no attempt follows a success.
C2_SuccessAfterFailures ==
    \A r \in 1..NumResources :
        /\ \A i \in 1..Len(outcomes[r]) :
               outcomes[r][i].kind = "ok" =>
                   /\ i = Len(outcomes[r])
                   /\ i <= MAX_RETRIES
                   /\ FailsThenOk(r, i - 1)
        /\ \A k \in 0..(MAX_RETRIES - 1) :
               FailsThenOk(r, k) =>
                   /\ Settled(r)
                   /\ r \in DOMAIN dataframes
                   /\ dataframes[r] = Stored(outcomes[r][k + 1].table)
                   /\ sleeps[r] = k

\* a resource failed MAX_RETRIES - 1 times and then gave a table
C2_Witness ==
    /\ FailsThenOk(1, MAX_RETRIES - 1)
    /\ sleeps[1] = MAX_RETRIES - 1
    /\ dataframes[1] = {"p", "q"}
    /\ pc = "pause"

\* the fetches of resource r are over, in any of the three scrapers
FetchesOver(r) == r < resIdx \/ (r = resIdx /\ pc \notin {"attempt", "single"})

\* C14: in each of the three scrapers a resource whose fetches all failed
\* with an Exception has been fetched MAX_RETRIES times when its fetches
\* are over, and only then is the empty frame stored for it.
C14_RetriedInEveryScraper ==
    \A r \in 1..NumResources :
        Kinds(r) = {"fail"} =>
            /\ FetchesOver(r) => Len(outcomes[r]) = MAX_RETRIES
            /\ r \in DOMAIN dataframes => Len(outcomes[r]) = MAX_RETRIES

\* the session has been released once, and not released before
Released == driver = "closed" /\ quits = 1

\* C15: in every run of each scraper the browser session, once acquired,
\* is in the end released, exactly once: when the loops end normally and
\* when something is raised out of them; nothing is fetched after that.
C15_SessionReleasedOnce ==
    /\ [](quits <= 1)
    /\ [](driver = "closed" <=> quits = 1)
    /\ [](driver = "none" <=> pc = "init")
    /\ (driver = "open") ~> Released
    /\ [](pc = "done" => Released /\ escaped = 0)
    /\ [](pc = "raised" => Released /\ escaped # 0)
    /\ [](escaped # 0 => pc \in {"finally", "raised"})
    /\ [][driver = "closed" =>
            driver' = "closed" /\ outcomes' = outcomes
            /\ dataframes' = dataframes]_vars

\* a run of the targeted scraper that was interrupted during the fetch of
\* its second league has released the session
C15_Witness ==
    /\ scraper = "targeted"
    /\ pc = "raised"
    /\ league = 2
    /\ outcomes[1] = <<>>
    /\ Released

\* how the fetches of resource r ended: with a table, or with the empty
\* frame after MAX_RETRIES failures
EndedInResult(r) ==
    /\ r \in DOMAIN dataframes
    /\ outcomes[r] # <<>>
    /\ LET last == outcomes[r][Len(outcomes[r])]
       IN  \/ last.kind = "ok" /\ dataframes[r] = Stored(last.table)
           \/ /\ Kinds(r) = {"fail"}
              /\ Len(outcomes[r]) = MAX_RETRIES
              /\ dataframes[r] = EmptyFrame

\* the retry budget of resource r has just been used up
Exhausted(r) ==
    /\ resIdx = r
    /\ Kinds(r) = {"fail"}
    /\ Len(outcomes[r]) = MAX_RETRIES

\* C16: the resources are fetched one at a time in the configured order:
\* the loop goes from a resource to the next one only; an attempt is made
\* on the current resource only; a resource has been attempted only if
\* every resource before it ended in a table or in the empty frame; and
\* after a resource used up its retries the next one is attempted.
C16_SequentialInOrder ==
    /\ [][resIdx' # resIdx =>
            \/ /\ resIdx' = resIdx + 1
               /\ pc = "resources" /\ pc' = "attempt"
               /\ \A q \in 1..resIdx : EndedInResult(q)
            \/ resIdx' = 0 /\ pc = "leagues"]_vars
    /\ [][\A r \in 1..NumResources :
              (outcomes'[r] # outcomes[r] /\ outcomes'[r] # <<>>) =>
                  /\ r = resIdx /\ pc = "attempt"
                  /\ Len(outcomes'[r]) = Len(outcomes[r]) + 1]_vars
    /\ [](\A r \in 1..NumResources :
              outcomes[r] # <<>> => \A q \in 1..(r - 1) : EndedInResult(q))
    /\ \A r \in 1..(NumResources - 1) :
           Exhausted(r) ~> (resIdx = r + 1 /\ pc = "attempt")

\* the first resource used up its retries and the second one then gave a
\* table, in the multi-league scraper
C16_Witness ==
    /\ scraper = "multi"
    /\ resIdx = 2 /\ pc = "pause"
    /\ Kinds(1) = {"fail"} /\ Len(outcomes[1]) = MAX_RETRIES
    /\ EndedInResult(1)
    /\ outcomes[2] = <<[kind |-> "ok", table |-> {"p", "q"}]>>

\* the loop over the resources has ended
LoopEnded ==
    escaped = 0 /\ resIdx = NumResources /\ pc \notin {"attempt", "pause"}

\* C17: the number of attempts made on a resource is at most MAX_RETRIES;
\* the attempt counter is the number of attempts made so far on the
\* current resource, whatever happened to the resources before it; when
\* the loop over the resources has ended every resource has one outcome:
\* a table, or the empty frame.
C17_IndependentBudgets ==
    /\ \A r \in 1..NumResources : Len(outcomes[r]) <= MAX_RETRIES
    /\ attempt \in 0..(MAX_RETRIES - 1)
    /\ pc = "attempt" => attempt = Len(outcomes[resIdx])
    /\ \A r \in 1..NumResources : r > resIdx => outcomes[r] = <<>>
    /\ LoopEnded =>
           /\ DOMAIN dataframes = 1..NumResources
           /\ \A r \in 1..NumResources : EndedInResult(r)

\* the first resource used up its retries, and the second one has used up
\* a full budget of its own
C17_Witness ==
    /\ LoopEnded
    /\ NumResources >= 2
    /\ \A r \in 1..2 :
           Kinds(r) = {"fail"} /\ Len(outcomes[r]) = MAX_RETRIES
    /\ dataframes[1] = EmptyFrame /\ dataframes[2] = EmptyFrame

(***************************************************************************)
(* import_collected_stats.py: the `import` command and import_player_stats *)
(***************************************************************************)

\* A record (a JSON object) is a function from field names to values.
\* dict.get(field, default)
Get(rec, field, default) == IF field \in DOMAIN rec THEN rec[field] ELSE default

\* stats_to_update (eighteen fields in the script, four of them here)
stats_to_update == {"minutes", "goals", "assists", "saves"}

required_fields == <<"name", "minutes", "goals", "assists">>

\* A stat value is a number.  float('nan'), which json.load reads from the
\* token NaN, is written as NaNValue: no count of the inputs equals it.
NaNValue == -1

\* x != y on two stat values: NaN differs from every value, itself included
NotEqual(x, y) == x # y \/ x = NaNValue

\* An entry of the stats file that is not a JSON object (a number, here) is
\* written as a record with the single key "number"; a name that is not a
\* string (null, here) is written <<"null">>.
NotAnObject == [number |-> 5]
NotAString == <<"null">>

\* isinstance(player, dict), and whether a name has the method strip()
IsDict(entry) == "number" \notin DOMAIN entry
IsStr(name) == name # NotAString

\* Inputs: the records of public/fpl-data.json and the entries of the
\* collected-stats file
MaxPlayers == 2
MaxUpdates == 2

PlayerRecords ==
    { [name |-> <<"a">>, team |-> "X", minutes |-> 1, goals |-> 1,
       assists |-> 0],
      [name |-> <<"a">>, team |-> "Y", goals |-> 2],
      [name |-> <<"b">>, team |-> "X", minutes |-> 1, goals |-> 0,
       assists |-> 1],
      [name |-> <<"a", " ">>, team |-> "X", goals |-> 1] }

UpdateRecords ==
    { [name |-> <<"a">>, minutes |-> 1, goals |-> 2, assists |-> 0],
      [name |-> <<"a">>, minutes |-> 1, goals |-> 1, assists |-> 0,
       team |-> "Z"],
      [name |-> <<" ", "a">>, minutes |-> 1, goals |-> 2, assists |-> 1],
      [name |-> <<"c">>, minutes |-> 1, goals |-> 2, assists |-> 0],
      [name |-> <<"b">>, minutes |-> 1, goals |-> 0, assists |-> 1,
       saves |-> 1, team |-> "Z"],
      [name |-> <<"b">>, minutes |-> 1, goals |-> NaNValue, assists |-> 1],
      [name |-> <<"a">>, goals |-> 2],
      [name |-> <<" ">>, minutes |-> 1, goals |-> 2, assists |-> 0],
      [minutes |-> 1, goals |-> 2, assists |-> 0],
      [name |-> NotAString, minutes |-> 1, goals |-> 2, assists |-> 0],
      NotAnObject }

RECURSIVE ListsUpTo(_, _)
ListsUpTo(items, n) ==
    IF n = 0 THEN {<<>>}
    ELSE LET shorter == ListsUpTo(items, n - 1)
         IN  shorter \cup {Append(l, x) : l \in shorter, x \in items}

Present(data) == [state |-> "present", data |-> data]
Missing == [state |-> "missing", data |-> <<>>]

\* What the stats file holds: a JSON array ("list", its entries are
\* stats_file), one JSON object instead of an array ("object"), or text
\* that is not JSON ("invalid").
StatsFiles ==
    {<<"list", l>> : l \in ListsUpTo(UpdateRecords, MaxUpdates)}
        \cup {<<"object", <<>>>>, <<"invalid", <<>>>>}

NoVerdict == [result |-> "none", entry |-> 0, problem |-> "", field |-> ""]

ImportInit ==
    /\ ipc = "start"
    /\ disk \in {Present(d) : d \in ListsUpTo(PlayerRecords, MaxPlayers)}
    /\ backup = Missing
    /\ \E f \in StatsFiles : shape = f[1] /\ stats_file = f[2]
    /\ validated = FALSE
    /\ verdict = NoVerdict
    /\ run = 1
    /\ first_disk = Missing
    /\ earlier_backup = Missing
    /\ fpl_data = <<>>
    /\ collected_stats = <<>>
    /\ player_dict = <<>>
    /\ ui = 0
    /\ updated_count = 0
    /\ not_found_count = 0
    /\ change_log = <<>>
    /\ result = "none"
    /\ NormRest /\ MatchRest /\ RetryRest

\* validate_stats_file on a list: the first entry, in order, that is not
\* an object, lacks a required field or has a blank name ends it
MissingFields(entry) ==
    {k \in 1..Len(required_fields) : required_fields[k] \notin DOMAIN entry}

EntryOk(entry) ==
    /\ IsDict(entry)
    /\ MissingFields(entry) = {}
    /\ IsStr(entry["name"])
    /\ Strip(entry["name"]) # <<>>

validate_stats_file(data) == \A i \in 1..Len(data) : EntryOk(data[i])

Min(S) == CHOOSE x \in S : \A y \in S : x <= y

\* a slip: the fields of an entry are looked for in reverse order
EntryReport_last_field(i, entry) ==
    IF ~IsDict(entry)
    THEN [result |-> "False", entry |-> i, problem |-> "not_object",
          field |-> ""]
    ELSE IF MissingFields(entry) # {}
    THEN [result |-> "False", entry |-> i, problem |-> "missing",
          field |-> required_fields[
                        CHOOSE k \in MissingFields(entry) :
                            \A j \in MissingFields(entry) : j <= k]]
    ELSE IF ~IsStr(entry["name"])
    THEN [result |-> "raised", entry |-> i, problem |-> "AttributeError",
          field |-> ""]
    ELSE [result |-> "False", entry |-> i, problem |-> "empty_name",
          field |-> ""]

\* what the loop body prints for entry i (1-based), an entry that is not in
\* order: "Entry i is not a valid object", "Entry i missing required
\* field: f" for the first required field it lacks, or "Entry i has empty
\* name"; player['name'].strip() raises when the name is not a string
EntryReport(i, entry) ==
    IF ~IsDict(entry)
    THEN [result |-> "False", entry |-> i, problem |-> "not_object",
          field |-> ""]
    ELSE IF MissingFields(entry) # {}
    THEN [result |-> "False", entry |-> i, problem |-> "missing",
          field |-> required_fields[Min(MissingFields(entry))]]
    ELSE IF ~IsStr(entry["name"])
    THEN [result |-> "raised", entry |-> i, problem |-> "AttributeError",
          field |-> ""]
    ELSE [result |-> "False", entry |-> i, problem |-> "empty_name",
          field |-> ""]

\* what validate_stats_file returns and prints
ValidationReport(kind, data) ==
    IF kind = "invalid"
    THEN [result |-> "False", entry |-> 0, problem |-> "unreadable",
          field |-> ""]
    ELSE IF kind # "list"
    THEN [result |-> "False", entry |-> 0, problem |-> "not_list",
          field |-> ""]
    ELSE IF validate_stats_file(data)
    THEN [result |-> "True", entry |-> 0, problem |-> "", field |-> ""]
    ELSE LET i == Min({k \in 1..Len(data) : ~EntryOk(data[k])})
         IN  EntryReport(i, data[i])

\* the `import` command: validate_stats_file, then import_player_stats
ValidateOk ==
    /\ ipc = "start"
    /\ ValidationReport(shape, stats_file).result = "True"
    /\ verdict' = ValidationReport(shape, stats_file)
    /\ validated' = TRUE
    /\ ipc' = "load"
    /\ UNCHANGED <<disk, backup, stats_file, fpl_data, collected_stats,
                   player_dict, ui, updated_count, not_found_count,
                   change_log, result>>
    /\ UNCHANGED <<shape, run, first_disk, earlier_backup>>
    /\ UNCHANGED <<normVars, matchVars, retryVars>>

\* a slip: the import goes on after a failed validation
ValidateFail_import_anyway ==
    /\ ipc = "start"
    /\ shape = "list"
    /\ ValidationReport(shape, stats_file).result = "False"
    /\ verdict' = ValidationReport(shape, stats_file)
    /\ ipc' = "load"
    /\ UNCHANGED <<disk, backup, stats_file, validated, fpl_data,
                   collected_stats, player_dict, ui, updated_count,
                   not_found_count, change_log, result>>
    /\ UNCHANGED <<shape, run, first_disk, earlier_backup>>
    /\ UNCHANGED <<normVars, matchVars, retryVars>>

\* validate_stats_file returns False: the command ends
ValidateFail ==
    /\ ipc = "start"
    /\ ValidationReport(shape, stats_file).result = "False"
    /\ verdict' = ValidationReport(shape, stats_file)
    /\ ipc' = "rejected"
    /\ UNCHANGED <<disk, backup, stats_file, validated, fpl_data,
                   collected_stats, player_dict, ui, updated_count,
                   not_found_count, change_log, result>>
    /\ UNCHANGED <<shape, run, first_disk, earlier_backup>>
    /\ UNCHANGED <<normVars, matchVars, retryVars>>

\* validate_stats_file raises (a name that is not a string): the command
\* ends with the exception
ValidateRaises ==
    /\ ipc = "start"
    /\ ValidationReport(shape, stats_file).result = "raised"
    /\ verdict' = ValidationReport(shape, stats_file)
    /\ ipc' = "raised"
    /\ UNCHANGED <<disk, backup, stats_file, validated, fpl_data,
                   collected_stats, player_dict, ui, updated_count,
                   not_found_count, change_log, result>>
    /\ UNCHANGED <<shape, run, first_disk, earlier_backup>>
    /\ UNCHANGED <<normVars, matchVars, retryVars>>

\* import_player_stats called on a file as it is, without the command's
\* validation
DirectCall ==
    /\ ipc = "start"
    /\ run = 1
    /\ ipc' = "load"
    /\ UNCHANGED <<disk, backup, stats_file, validated, fpl_data,
                   collected_stats, player_dict, ui, updated_count,
                   not_found_count, change_log, result>>
    /\ UNCHANGED <<shape, verdict, run, first_disk, earlier_backup>>
    /\ UNCHANGED <<normVars, matchVars, retryVars>>

\* a slip: a name that occurs twice keeps the index of its first record
PlayerDict_first(data) ==
    [n \in {data[i]["name"] : i \in 1..Len(data)} |->
        CHOOSE i \in 1..Len(data) :
            /\ data[i]["name"] = n
            /\ \A j \in 1..Len(data) : data[j]["name"] = n => i <= j]

\* {player['name']: i for i, player in enumerate(fpl_data)}: a name that
\* occurs twice keeps the index of its last record
PlayerDict(data) ==
    [n \in {data[i]["name"] : i \in 1..Len(data)} |->
        CHOOSE i \in 1..Len(data) :
            /\ data[i]["name"] = n
            /\ \A j \in 1..Len(data) : data[j]["name"] = n => j <= i]

\* both files are read, the name index is built, the counters start at 0
LoadData ==
    /\ ipc = "load"
    /\ shape = "list"
    /\ fpl_data' = disk.data
    /\ collected_stats' = stats_file
    /\ player_dict' = PlayerDict(disk.data)
    /\ updated_count' = 0
    /\ not_found_count' = 0
    /\ ui' = 0
    /\ ipc' = "loop"
    /\ UNCHANGED <<disk, backup, stats_file, validated, change_log, result>>
    /\ UNCHANGED <<shape, verdict, run, first_disk, earlier_backup>>
    /\ UNCHANGED <<normVars, matchVars, retryVars>>

\* player_stats.get('name', '').strip() returns: the entry is an object, and
\* its name, if it has one, is a string
HasName(player_stats) ==
    IsDict(player_stats) /\ IsStr(Get(player_stats, "name", <<>>))

\* player_stats.get('name', '').strip()
player_name(player_stats) == Strip(Get(player_stats, "name", <<>>))

\* a slip: every recognized field of the update counts as a change
Changes_all_present(original_player, player_stats) ==
    {stat \in stats_to_update : stat \in DOMAIN player_stats}

\* a slip: every field of the update but the name is compared
Changes_any_field(original_player, player_stats) ==
    {stat \in DOMAIN player_stats \ {"name"} :
        player_stats[stat] # Get(original_player, stat, 0)}

\* a slip: a field the record lacks differs from every value of the update
Changes_absent_differs(original_player, player_stats) ==
    {stat \in stats_to_update :
        /\ stat \in DOMAIN player_stats
        /\ \/ stat \notin DOMAIN original_player
           \/ NotEqual(player_stats[stat], original_player[stat])}

\* the fields appended to `changes`: the recognized fields of the update
\* whose value differs from the record's (0 for a field the record lacks)
Changes(original_player, player_stats) ==
    {stat \in stats_to_update :
        /\ stat \in DOMAIN player_stats
        /\ NotEqual(player_stats[stat], Get(original_player, stat, 0))}

\* old_value of each change: the record's value, 0 for a field it lacks
OldValues(original_player, player_stats) ==
    [stat \in Changes(original_player, player_stats) |->
        Get(original_player, stat, 0)]

\* a slip: `+=` for `=`
Updated_add(original_player, player_stats) ==
    LET changes == Changes(original_player, player_stats)
    IN  [k \in DOMAIN original_player \cup changes |->
            IF k \in changes
            THEN Get(original_player, k, 0) + player_stats[k]
            ELSE original_player[k]]

\* original_player[stat] = new_value for each change
Updated(original_player, player_stats) ==
    LET changes == Changes(original_player, player_stats)
    IN  [k \in DOMAIN original_player \cup changes |->
            IF k \in changes THEN player_stats[k] ELSE original_player[k]]

\* an entry without a name: "Skipping entry with no name", continue
SkipNoName ==
    /\ ipc = "loop"
    /\ ui < Len(collected_stats)
    /\ HasName(collected_stats[ui + 1])
    /\ player_name(collected_stats[ui + 1]) = <<>>
    /\ ui' = ui + 1
    /\ change_log' = Append(change_log, [kind |-> "skipped", changes |-> {}, old |-> <<>>])
    /\ UNCHANGED <<ipc, disk, backup, stats_file, validated, fpl_data,
                   collected_stats, player_dict, updated_count,
                   not_found_count, result>>
    /\ UNCHANGED <<shape, verdict, run, first_disk, earlier_backup>>
    /\ UNCHANGED <<normVars, matchVars, retryVars>>

\* a slip: the dataset file is rewritten at every update
UpdateFound_write_through ==
    /\ ipc = "loop"
    /\ ui < Len(collected_stats)
    /\ HasName(collected_stats[ui + 1])
    /\ LET player_stats == collected_stats[ui + 1]
           name == player_name(player_stats)
       IN  /\ name # <<>>
           /\ name \in DOMAIN player_dict
           /\ LET player_index == player_dict[name]
                  original_player == fpl_data[player_index]
                  changes == Changes(original_player, player_stats)
              IN  /\ fpl_data' = [fpl_data EXCEPT ![player_index] =
                                     Updated(original_player, player_stats)]
                  /\ updated_count' =
                         IF changes # {} THEN updated_count + 1
                         ELSE updated_count
                  /\ change_log' = Append(change_log,
                         [kind |-> IF changes # {} THEN "updated"
                                   ELSE "unchanged",
                          changes |-> changes,
                          old |-> OldValues(original_player, player_stats)])
    /\ disk' = [state |-> "present", data |-> fpl_data']
    /\ ui' = ui + 1
    /\ UNCHANGED <<ipc, backup, stats_file, validated, collected_stats,
                   player_dict, not_found_count, result>>
    /\ UNCHANGED <<shape, verdict, run, first_disk, earlier_backup>>
    /\ UNCHANGED <<normVars, matchVars, retryVars>>

\* the name is in player_dict: the record is updated in place
UpdateFound ==
    /\ ipc = "loop"
    /\ ui < Len(collected_stats)
    /\ HasName(collected_stats[ui + 1])
    /\ LET player_stats == collected_stats[ui + 1]
           name == player_name(player_stats)
       IN  /\ name # <<>>
           /\ name \in DOMAIN player_dict
           /\ LET player_index == player_dict[name]
                  original_player == fpl_data[player_index]
                  changes == Changes(original_player, player_stats)
              IN  /\ fpl_data' = [fpl_data EXCEPT ![player_index] =
                                     Updated(original_player, player_stats)]
                  /\ updated_count' =
                         IF changes # {} THEN updated_count + 1
                         ELSE updated_count
                  /\ change_log' = Append(change_log,
                         [kind |-> IF changes # {} THEN "updated"
                                   ELSE "unchanged",
                          changes |-> changes,
                          old |-> OldValues(original_player, player_stats)])
    /\ ui' = ui + 1
    /\ UNCHANGED <<ipc, disk, backup, stats_file, validated, collected_stats,
                   player_dict, not_found_count, result>>
    /\ UNCHANGED <<shape, verdict, run, first_disk, earlier_backup>>
    /\ UNCHANGED <<normVars, matchVars, retryVars>>

\* a slip: the loop over the updates ends at a player that is not found
UpdateNotFound_stop ==
    /\ ipc = "loop"
    /\ ui < Len(collected_stats)
    /\ HasName(collected_stats[ui + 1])
    /\ LET name == player_name(collected_stats[ui + 1])
       IN  name # <<>> /\ name \notin DOMAIN player_dict
    /\ not_found_count' = not_found_count + 1
    /\ change_log' = Append(change_log,
           [kind |-> "not_found", changes |-> {}, old |-> <<>>])
    /\ ui' = Len(collected_stats)
    /\ UNCHANGED <<ipc, disk, backup, stats_file, validated, fpl_data,
                   collected_stats, player_dict, updated_count, result>>
    /\ UNCHANGED <<shape, verdict, run, first_disk, earlier_backup>>
    /\ UNCHANGED <<normVars, matchVars, retryVars>>

\* the name is not in player_dict: "Player not found in dataset"
UpdateNotFound ==
    /\ ipc = "loop"
    /\ ui < Len(collected_stats)
    /\ HasName(collected_stats[ui + 1])
    /\ LET name == player_name(collected_stats[ui + 1])
       IN  name # <<>> /\ name \notin DOMAIN player_dict
    /\ not_found_count' = not_found_count + 1
    /\ change_log' = Append(change_log,
           [kind |-> "not_found", changes |-> {}, old |-> <<>>])
    /\ ui' = ui + 1
    /\ UNCHANGED <<ipc, disk, backup, stats_file, validated, fpl_data,
                   collected_stats, player_dict, updated_count, result>>
    /\ UNCHANGED <<shape, verdict, run, first_disk, earlier_backup>>
    /\ UNCHANGED <<normVars, matchVars, retryVars>>

\* the summary; without an updated player the function returns False
NoUpdates ==
    /\ ipc = "loop"
    /\ ui = Len(collected_stats)
    /\ updated_count = 0
    /\ result' = "False"
    /\ ipc' = "done"
    /\ UNCHANGED <<disk, backup, stats_file, validated, fpl_data,
                   collected_stats, player_dict, ui, updated_count,
                   not_found_count, change_log>>
    /\ UNCHANGED <<shape, verdict, run, first_disk, earlier_backup>>
    /\ UNCHANGED <<normVars, matchVars, retryVars>>

\* a slip: the dataset file is opened for writing before it is renamed
RenameToBackup_truncate ==
    /\ ipc = "loop"
    /\ ui = Len(collected_stats)
    /\ updated_count > 0
    /\ disk' = [state |-> "partial", data |-> <<>>]
    /\ ipc' = "write"
    /\ UNCHANGED <<backup, stats_file, validated, fpl_data, collected_stats,
                   player_dict, ui, updated_count, not_found_count,
                   change_log, result>>
    /\ UNCHANGED <<shape, verdict, run, first_disk, earlier_backup>>
    /\ UNCHANGED <<normVars, matchVars, retryVars>>

\* os.rename('public/fpl-data.json', backup)
RenameToBackup ==
    /\ ipc = "loop"
    /\ ui = Len(collected_stats)
    /\ updated_count > 0
    /\ backup' = disk
    /\ disk' = Missing
    /\ ipc' = "write"
    /\ UNCHANGED <<stats_file, validated, fpl_data, collected_stats,
                   player_dict, ui, updated_count, not_found_count,
                   change_log, result>>
    /\ UNCHANGED <<shape, verdict, run, first_disk, earlier_backup>>
    /\ UNCHANGED <<normVars, matchVars, retryVars>>

\* json.dump(fpl_data, f); return True
WriteDataset ==
    /\ ipc = "write"
    /\ disk' = Present(fpl_data)
    /\ result' = "True"
    /\ ipc' = "done"
    /\ UNCHANGED <<backup, stats_file, validated, fpl_data, collected_stats,
                   player_dict, ui, updated_count, not_found_count,
                   change_log>>
    /\ UNCHANGED <<shape, verdict, run, first_disk, earlier_backup>>
    /\ UNCHANGED <<normVars, matchVars, retryVars>>

\* import_player_stats raises: json.load on a file that is not JSON, the
\* loop over a file that is not a list (its first item has no get()), an
\* entry that is not an object, or a name that is not a string
ImportRaises ==
    /\ \/ ipc = "load" /\ shape # "list"
       \/ /\ ipc = "loop"
          /\ ui < Len(collected_stats)
          /\ ~HasName(collected_stats[ui + 1])
    /\ ipc' = "raised"
    /\ UNCHANGED <<disk, backup, stats_file, validated, fpl_data,
                   collected_stats, player_dict, ui, updated_count,
                   not_found_count, change_log, result>>
    /\ UNCHANGED <<shape, verdict, run, first_disk, earlier_backup>>
    /\ UNCHANGED <<normVars, matchVars, retryVars>>

\* What a crash leaves at public/fpl-data.json between os.rename and the
\* end of json.dump: no file (open() not reached), or a file holding a
\* part of the text, from nothing (open(..., 'w') creates it empty) to all
\* but the end.  A part is written as the records it holds whole.
Partial(data) == [state |-> "partial", data |-> data]

CrashRemains ==
    {Missing} \cup {Partial(SubSeq(fpl_data, 1, n)) : n \in 0..Len(fpl_data)}

\* the process dies (kill, power loss, disk full) after os.rename and
\* before json.dump and the close of the file are over
Crash ==
    /\ ipc = "write"
    /\ disk' \in CrashRemains
    /\ ipc' = "crashed"
    /\ UNCHANGED <<backup, stats_file, validated, fpl_data, collected_stats,
                   player_dict, ui, updated_count, not_found_count,
                   change_log, result>>
    /\ UNCHANGED <<shape, verdict, run, first_disk, earlier_backup>>
    /\ UNCHANGED <<normVars, matchVars, retryVars>>

\* The `import` command is run a second time on the same stats file, in a
\* new process and at a later second: the dataset is what the first run
\* left, the first run's backup keeps its name, and this run's backup name
\* is not taken.
ImportAgain ==
    /\ ipc = "done"
    /\ run = 1
    /\ validated
    /\ run' = 2
    /\ first_disk' = disk
    /\ earlier_backup' = backup
    /\ backup' = Missing
    /\ ipc' = "start"
    /\ validated' = FALSE
    /\ verdict' = NoVerdict
    /\ fpl_data' = <<>>
    /\ collected_stats' = <<>>
    /\ player_dict' = <<>>
    /\ ui' = 0
    /\ updated_count' = 0
    /\ not_found_count' = 0
    /\ change_log' = <<>>
    /\ result' = "none"
    /\ UNCHANGED <<disk, stats_file, shape>>
    /\ UNCHANGED <<normVars, matchVars, retryVars>>

ImportNext ==
    \/ ValidateOk
    \/ ValidateFail
    \/ ValidateRaises
    \/ DirectCall
    \/ LoadData
    \/ SkipNoName
    \/ UpdateFound
    \/ UpdateNotFound
    \/ ImportRaises
    \/ NoUpdates
    \/ RenameToBackup
    \/ WriteDataset
    \/ Crash
    \/ ImportAgain

SpecImport == ImportInit /\ [][ImportNext]_vars

(***************************************************************************)
(* Properties of the import                                                *)
(***************************************************************************)
DatasetNames == {fpl_data[i]["name"] : i \in 1..Len(fpl_data)}

\* the loop is about to process collected_stats[ui + 1]
Processing == ipc = "loop" /\ ui < Len(collected_stats)

\* the last record of the dataset with this name
LastNamed(name) ==
    CHOOSE i \in 1..Len(fpl_data) :
        /\ fpl_data[i]["name"] = name
        /\ \A j \in 1..Len(fpl_data) : fpl_data[j]["name"] = name => j <= i

\* the effect of one update on the matched record m, all but the values
\* the record holds afterwards
FoundStepEffect(m, update) ==
    LET before == fpl_data[m]
        after == fpl_data'[m]
        differing == {stat \in stats_to_update \cap DOMAIN update :
                         NotEqual(update[stat], Get(before, stat, 0))}
    IN  /\ DOMAIN before \subseteq DOMAIN after
        /\ \A k \in DOMAIN after :
               (k \notin DOMAIN before \/ after[k] # before[k])
                   => k \in differing
        /\ updated_count' =
               IF differing # {} THEN updated_count + 1 ELSE updated_count

\* C9 as stated: when the update's name is found, every recognized field
\* present in the update holds the update's value in the matched record
\* afterwards; only differing fields are overwritten; the updated-player
\* count goes up by 1 iff a field differed.
C9_FoundUpdateTakesValues ==
    [][Processing /\ ui' # ui
        /\ player_name(collected_stats[ui + 1]) \in DatasetNames
        => LET update == collected_stats[ui + 1]
               m == LastNamed(player_name(update))
           IN  /\ \A stat \in stats_to_update \cap DOMAIN update :
                      /\ stat \in DOMAIN fpl_data'[m]
                      /\ fpl_data'[m][stat] = update[stat]
               /\ FoundStepEffect(m, update)]_vars

\* C9 amended: when the update's name is found, every recognized field
\* present in the update reads as the update's value in the matched record
\* afterwards, a field the record lacks reading as 0 (an update value of 0
\* does not add the field); only fields whose update value differs from the
\* current value (0 when the record lacks the field) are overwritten or
\* added; the updated-player count goes up by 1 iff a field differed.
C9_FoundUpdateReadsAsValues ==
    [][Processing /\ ui' # ui
        /\ player_name(collected_stats[ui + 1]) \in DatasetNames
        => LET update == collected_stats[ui + 1]
               m == LastNamed(player_name(update))
           IN  /\ \A stat \in stats_to_update \cap DOMAIN update :
                      Get(fpl_data'[m], stat, 0) = update[stat]
               /\ FoundStepEffect(m, update)]_vars

\* the import of update {a, goals 2, ...} into record {a, goals 1, ...} is
\* over: goals is 2 in the written dataset, 1 in the backup, one player
\* was updated
C9_Witness ==
    /\ ipc = "done"
    /\ change_log = <<[kind |-> "updated", changes |-> {"goals"},
                       old |-> [stat \in {"goals"} |-> 1]]>>
    /\ backup.state = "present"
    /\ backup.data[1]["goals"] = 1
    /\ disk.data[1]["goals"] = 2
    /\ updated_count = 1

\* what a not-found update does: no record changes, it alone is counted,
\* and the loop goes on with the next update
NotFoundStepEffect ==
    /\ fpl_data' = fpl_data
    /\ not_found_count' = not_found_count + 1
    /\ updated_count' = updated_count
    /\ ui' = ui + 1
    /\ ipc' = "loop"

\* C10 as stated, on a file that passed validate_stats_file: an update
\* whose name string equals no record's name changes nothing, adds 1 to the
\* not-found count, and the updates after it are processed.
C10_UnknownNameCounted ==
    [][/\ Processing /\ ui' # ui /\ validated
          /\ Get(collected_stats[ui + 1], "name", <<>>) \notin DatasetNames
          => NotFoundStepEffect
       /\ ipc' = "done" => Len(change_log') = Len(collected_stats')]_vars

\* C10 amended: the lookup is by the name with its leading and trailing
\* blanks stripped; an update whose stripped name is not empty and equals
\* no record's name changes nothing, adds 1 to the not-found count, and the
\* updates after it are processed.
C10_UnknownStrippedNameCounted ==
    [][/\ Processing /\ ui' # ui
          /\ Strip(Get(collected_stats[ui + 1], "name", <<>>)) # <<>>
          /\ Strip(Get(collected_stats[ui + 1], "name", <<>>))
                 \notin DatasetNames
          => NotFoundStepEffect
       /\ ipc' = "done" => Len(change_log') = Len(collected_stats')]_vars

\* an update for "c", a name of no record, was counted as not found and
\* the update after it was applied
C10_Witness ==
    /\ ipc = "done"
    /\ Len(collected_stats) = 2
    /\ Get(collected_stats[1], "name", <<>>) = <<"c">>
    /\ change_log = <<[kind |-> "not_found", changes |-> {}, old |-> <<>>],
                      [kind |-> "updated", changes |-> {"goals"},
                       old |-> [stat \in {"goals"} |-> 1]]>>
    /\ not_found_count = 1
    /\ backup.state = "present"

\* the updates that changed a record
UpdatedEntries == {i \in 1..Len(change_log) : change_log[i].kind = "updated"}

\* all the updates of the file have been processed
AllProcessed ==
    /\ ipc \in {"loop", "write"}
    /\ ui = Len(collected_stats)
    /\ Len(change_log) = Len(collected_stats)

\* C11: within a run of import_player_stats the dataset file and the backup
\* are left alone until every update has been processed; then, if at least
\* one update changed a record, the dataset file is first renamed to the
\* backup and the updated dataset is then written to the original path; if
\* no update changed a record there is neither a rename nor a write.
C11_WriteOnceAtEnd ==
    /\ [](updated_count = Cardinality(UpdatedEntries))
    /\ [][run' = run /\ ipc' # "crashed" /\ (disk' # disk \/ backup' # backup)
            => /\ AllProcessed
               /\ UpdatedEntries # {}
               /\ \/ /\ ipc = "loop" /\ ipc' = "write"
                     /\ disk.state = "present" /\ backup = Missing
                     /\ backup' = disk /\ disk' = Missing
                  \/ /\ ipc = "write" /\ ipc' = "done"
                     /\ disk = Missing /\ backup' = backup
                     /\ backup.state = "present"
                     /\ disk' = Present(fpl_data)]_vars
    /\ [](ipc = "done" =>
             /\ UpdatedEntries # {} =>
                    /\ result = "True"
                    /\ backup.state = "present"
                    /\ disk = Present(fpl_data)
             /\ UpdatedEntries = {} =>
                    /\ result = "False"
                    /\ backup = Missing
                    /\ disk = Present(fpl_data))

\* a run is over in which the first update changed nothing and the second
\* changed a record: the old dataset is the backup, the new one is at the
\* original path
C11_Witness ==
    /\ ipc = "done" /\ run = 1
    /\ Len(change_log) = 2
    /\ change_log[1].kind = "unchanged"
    /\ change_log[2].kind = "updated"
    /\ backup.state = "present"
    /\ disk = Present(fpl_data)
    /\ disk.data # backup.data

\* an entry in order: an object with the four required fields whose name is
\* a string that is not blank
WellFormed(entry) ==
    /\ IsDict(entry)
    /\ {"name", "minutes", "goals", "assists"} \subseteq DOMAIN entry
    /\ IsStr(entry["name"])
    /\ Strip(entry["name"]) # <<>>

\* the entry is an object that lacks a required field
LacksField(entry) ==
    IsDict(entry)
        /\ ~({"name", "minutes", "goals", "assists"} \subseteq DOMAIN entry)

\* the first required field, in the order name, minutes, goals, assists,
\* that the entry lacks
FirstMissing(entry) ==
    IF "name" \notin DOMAIN entry THEN "name"
    ELSE IF "minutes" \notin DOMAIN entry THEN "minutes"
    ELSE IF "goals" \notin DOMAIN entry THEN "goals"
    ELSE "assists"

\* the position of the first entry for which P fails
FirstNot(P(_), data) ==
    CHOOSE i \in 1..Len(data) :
        ~P(data[i]) /\ \A j \in 1..(i - 1) : P(data[j])

Validation == verdict.result # "none" /\ shape = "list"

\* C12 as stated: when some entry of the array lacks a required field,
\* validate_stats_file returns failure and reports the position of the
\* first offending entry with the name of its first missing required field.
C12_MissingFieldReported ==
    (Validation /\ \E i \in 1..Len(stats_file) : LacksField(stats_file[i]))
        => LET i == FirstNot(WellFormed, stats_file)
           IN  /\ verdict.result = "False"
               /\ verdict.entry = i
               /\ verdict.problem = "missing"
               /\ verdict.field = FirstMissing(stats_file[i])

\* C12 amended: an array with an entry that lacks a required field never
\* passes validation.  The entries are examined in order up to the first
\* one that is not an object, lacks a required field, or has a name that is
\* not a string or is blank; when that entry is an object lacking a
\* required field, validate_stats_file returns failure and reports its
\* 1-based position and its first missing required field.
C12_FirstOffenderReported ==
    (Validation /\ \E i \in 1..Len(stats_file) : LacksField(stats_file[i]))
        => LET i == FirstNot(WellFormed, stats_file)
           IN  /\ verdict.result # "True"
               /\ verdict.entry = i
               /\ LacksField(stats_file[i]) =>
                      /\ verdict.result = "False"
                      /\ verdict.problem = "missing"
                      /\ verdict.field = FirstMissing(stats_file[i])

\* a file was rejected whose second entry lacks minutes and assists, after
\* a first entry in order: entry 2 and the field minutes are reported
C12_Witness ==
    /\ ipc = "rejected"
    /\ Len(stats_file) = 2
    /\ WellFormed(stats_file[1])
    /\ DOMAIN stats_file[2] = {"name", "goals"}
    /\ verdict = [result |-> "False", entry |-> 2, problem |-> "missing",
                  field |-> "minutes"]

\* C13: under the `import` command, once validate_stats_file has failed
\* (the file is not a list, an entry is not an object, lacks a required
\* field or has an empty name) nothing more happens: import_player_stats
\* is not invoked, no dataset is loaded, and the dataset file and the
\* backup are as they were.
C13_NoImportAfterFailedValidation ==
    /\ [][verdict'.result \in {"False", "raised"}
            => /\ verdict.result = "none"
               /\ ipc' \in {"rejected", "raised"}
               /\ disk' = disk /\ backup' = backup
               /\ fpl_data' = fpl_data]_vars
    /\ [](verdict.result \in {"False", "raised"}
             => /\ ipc \in {"rejected", "raised"}
                /\ ~validated
                /\ fpl_data = <<>> /\ collected_stats = <<>>
                /\ change_log = <<>> /\ result = "none"
                /\ disk.state = "present" /\ backup = Missing)

\* a file was rejected for the blank name of its second entry; its first
\* entry is an update that would have changed a record of the dataset
C13_Witness ==
    /\ ipc = "rejected"
    /\ verdict.problem = "empty_name" /\ verdict.entry = 2
    /\ WellFormed(stats_file[1])
    /\ \E i \in 1..Len(disk.data) :
           /\ disk.data[i]["name"] = Strip(stats_file[1]["name"])
           /\ Changes(disk.data[i], stats_file[1]) # {}

\* C18: in a run of the import, as long as there is no backup the dataset
\* file is complete and is left as it is; the rename makes the backup out
\* of that complete file; a backup, once there, is never modified and is
\* never a partial file, whatever happens to the dataset file: so a
\* complete copy of the original dataset is at the primary path before the
\* rename and at the backup path after it, also when the run crashes
\* between the rename and the end of the write.
C18_BackupCrashSafe ==
    /\ [](/\ backup.state \in {"missing", "present"}
          /\ backup.state = "missing" => disk.state = "present"
          /\ ipc = "crashed" => backup.state = "present")
    /\ [][run' = run =>
            /\ (backup.state = "missing" /\ backup'.state = "missing")
                   => disk' = disk
            /\ (backup.state = "missing" /\ backup'.state # "missing")
                   => backup' = disk
            /\ backup.state = "present" => backup' = backup]_vars

\* the run crashed during the write: a part of the new dataset is at the
\* primary path, the whole old dataset is the backup
C18_Witness ==
    /\ ipc = "crashed"
    /\ disk.state = "partial"
    /\ Len(disk.data) < Len(fpl_data)
    /\ backup.state = "present"
    /\ Len(backup.data) = Len(fpl_data)
    /\ backup.data # fpl_data

\* the fields of record i that are not recognized stats are the same in
\* the two datasets, and no such field has been added
SameOutsideStats(before, after, i) ==
    /\ DOMAIN before[i] \subseteq DOMAIN after[i]
    /\ \A k \in DOMAIN after[i] \ stats_to_update :
           k \in DOMAIN before[i] /\ after[i][k] = before[i][k]

\* the names of the updates of the file, as they are looked up
UpdateNames ==
    {player_name(collected_stats[i]) : i \in 1..Len(collected_stats)}

\* the dataset as it was before the import
Original == IF backup.state = "present" THEN backup.data ELSE disk.data

\* C19: import_player_stats never adds, removes or reorders records; an
\* update changes no record but the one its name is looked up to; a record
\* whose name matches no update is never changed; no field outside
\* stats_to_update is changed or added; an update counts as an updated
\* player only if a recognized field of it differed.
C19_ImportFrame ==
    /\ [][ipc = "loop" /\ run' = run =>
            /\ Len(fpl_data') = Len(fpl_data)
            /\ \A i \in 1..Len(fpl_data) :
                   /\ SameOutsideStats(fpl_data, fpl_data', i)
                   /\ fpl_data'[i] # fpl_data[i] =>
                          /\ ui' = ui + 1
                          /\ fpl_data[i]["name"] =
                                 player_name(collected_stats[ui + 1])
            /\ updated_count' # updated_count =>
                   /\ ui' = ui + 1
                   /\ LET update == collected_stats[ui + 1]
                          m == LastNamed(player_name(update))
                      IN  \E stat \in stats_to_update \cap DOMAIN update :
                              /\ NotEqual(update[stat],
                                          Get(fpl_data[m], stat, 0))
                              /\ fpl_data'[m][stat] = update[stat]]_vars
    /\ [](ipc \in {"loop", "write", "done", "crashed"} =>
             /\ Len(fpl_data) = Len(Original)
             /\ \A i \in 1..Len(fpl_data) :
                    /\ SameOutsideStats(Original, fpl_data, i)
                    /\ fpl_data[i]["name"] \notin UpdateNames
                           => fpl_data[i] = Original[i])
    /\ [](ipc = "done" => disk.data = fpl_data)

\* an update whose stats are those of the record and whose team is not was
\* processed: nothing changed, no player is counted, no file is written
C19_Witness ==
    /\ ipc = "done" /\ run = 1
    /\ Len(collected_stats) = 1
    /\ "team" \in DOMAIN collected_stats[1]
    /\ change_log = <<[kind |-> "unchanged", changes |-> {}, old |-> <<>>]>>
    /\ collected_stats[1]["team"] # fpl_data[player_dict[<<"a">>]]["team"]
    /\ updated_count = 0
    /\ backup = Missing

\* the second run of the command on the same file is over
SecondDone == run = 2 /\ ipc = "done"

\* the names of the entries, as written in the file, are pairwise distinct
DistinctNames ==
    \A i, j \in 1..Len(stats_file) :
        i # j => stats_file[i]["name"] # stats_file[j]["name"]

\* the names of the entries are pairwise distinct once stripped
DistinctStrippedNames ==
    \A i, j \in 1..Len(stats_file) :
        i # j => Strip(stats_file[i]["name"]) # Strip(stats_file[j]["name"])

\* no stat value of the file is NaN
NoNaN ==
    \A i \in 1..Len(stats_file) :
        \A stat \in stats_to_update \cap DOMAIN stats_file[i] :
            stats_file[i][stat] # NaNValue

\* C20 as stated: a second import of a validated file leaves the dataset
\* the first import produced; when the names of the entries are pairwise
\* distinct it reports no updated player and makes no backup and no write.
C20_SecondImportChangesNothing ==
    /\ SecondDone => disk = first_disk
    /\ (run = 2 /\ validated /\ DistinctNames) =>
           /\ updated_count = 0
           /\ backup = Missing
           /\ disk = first_disk

\* C20 amended: a second import of a validated file leaves the dataset the
\* first import produced; when the names of the entries are pairwise
\* distinct after stripping and no stat value is NaN, it reports no updated
\* player and makes no backup and no write.
C20_SecondImportIdempotent ==
    /\ SecondDone => disk = first_disk
    /\ (run = 2 /\ validated /\ DistinctStrippedNames /\ NoNaN) =>
           /\ updated_count = 0
           /\ backup = Missing
           /\ disk = first_disk

\* a file was imported twice: the first import changed the dataset, the
\* second found nothing to change
C20_Witness ==
    /\ SecondDone
    /\ earlier_backup.state = "present"
    /\ earlier_backup.data # disk.data
    /\ Len(change_log) = 2
    /\ \A i \in 1..2 : change_log[i].kind = "unchanged"
    /\ result = "False"
    /\ backup = Missing

\* the records of the dataset with this name
Namesakes(name) == {i \in 1..Len(fpl_data) : fpl_data[i]["name"] = name}

\* C21: when the dataset holds several records with one name, the name
\* index maps the name to the last of them, and an update for the name
\* leaves every earlier record with the name (and every other record)
\* as it was, the last record alone taking the update's values.
C21_DuplicateNameLastRecord ==
    [][Processing /\ ui' # ui
        /\ Cardinality(Namesakes(player_name(collected_stats[ui + 1]))) > 1
        => LET update == collected_stats[ui + 1]
               name == player_name(update)
               last == CHOOSE i \in Namesakes(name) :
                           \A j \in Namesakes(name) : j <= i
           IN  /\ player_dict[name] = last
               /\ \A i \in 1..Len(fpl_data) \ {last} :
                      fpl_data'[i] = fpl_data[i]
               /\ Len(fpl_data') = Len(fpl_data)
               /\ \A stat \in stats_to_update \cap DOMAIN update :
                      Get(fpl_data'[last], stat, 0) = update[stat]]_vars

\* the dataset held two different records named "a"; an update for "a" was
\* imported: the second record changed, the first is as it was
C21_Witness ==
    /\ ipc = "done"
    /\ backup.state = "present"
    /\ Len(backup.data) = 2
    /\ backup.data[1]["name"] = <<"a">>
    /\ backup.data[2]["name"] = <<"a">>
    /\ backup.data[1] # backup.data[2]
    /\ disk.data[1] = backup.data[1]
    /\ disk.data[2] # backup.data[2]
    /\ updated_count = 1

\* C22: when the matched record lacks a recognized stat field of the
\* update, the update's value is compared with 0: a value of 0 changes
\* nothing and does not add the field; any other value adds the field
\* with that value, and the change is recorded as one from 0.
C22_AbsentFieldComparesAsZero ==
    [][Processing /\ ui' # ui
        /\ player_name(collected_stats[ui + 1]) \in DatasetNames
        => LET update == collected_stats[ui + 1]
               m == LastNamed(player_name(update))
               logged == change_log'[Len(change_log')]
           IN  \A stat \in (stats_to_update \cap DOMAIN update)
                                \ DOMAIN fpl_data[m] :
                   IF update[stat] = 0
                   THEN /\ stat \notin DOMAIN fpl_data'[m]
                        /\ stat \notin logged.changes
                   ELSE /\ stat \in DOMAIN fpl_data'[m]
                        /\ fpl_data'[m][stat] = update[stat]
                        /\ logged.kind = "updated"
                        /\ stat \in logged.changes
                        /\ logged.old[stat] = 0]_vars

\* a record without minutes and assists took an update with minutes 1 and
\* assists 0: minutes was added and logged as a change from 0, assists
\* was not added
C22_Witness ==
    /\ ipc = "done"
    /\ backup.state = "present"
    /\ Len(backup.data) = 1
    /\ DOMAIN backup.data[1] = {"name", "team", "goals"}
    /\ Len(collected_stats) = 1
    /\ collected_stats[1]["minutes"] = 1
    /\ collected_stats[1]["assists"] = 0
    /\ DOMAIN disk.data[1] = {"name", "team", "goals", "minutes"}
    /\ disk.data[1]["minutes"] = 1
    /\ change_log = <<[kind |-> "updated", changes |-> {"minutes"},
                       old |-> [stat \in {"minutes"} |-> 0]]>>

(***************************************************************************)
(* Properties of the matcher                                               *)
(***************************************************************************)
Range(s) == {s[i] : i \in 1..Len(s)}

TargetNames(target) == {target.primary_name} \cup Range(target.alt_names)
TargetClubs(target) == {target.club} \cup Range(target.alt_clubs)

PlayerText(row) == IF "Player" \in DOMAIN row THEN StrOf(row["Player"]) ELSE <<>>
SquadText(row) == IF "Squad" \in DOMAIN row THEN StrOf(row["Squad"]) ELSE <<>>

ContainsEitherWay(x, y) == IsSubstring(x, y) \/ IsSubstring(y, x)

\* symmetric containment over the variants
NameRule(target, row) ==
    \E v \in TargetNames(target) :
        ContainsEitherWay(normalize_name(v), normalize_name(PlayerText(row)))

ClubRule(target, row) ==
    \E v \in TargetClubs(target) :
        ContainsEitherWay(normalize_name(v), normalize_name(SquadText(row)))

\* equality with one of the normalized variants, on both fields
ExactMatch(target, row) ==
    /\ \E v \in TargetNames(target) :
           normalize_name(v) = normalize_name(PlayerText(row))
    /\ \E v \in TargetClubs(target) :
           normalize_name(v) = normalize_name(SquadText(row))

Found == Range(found_players)
Examined == {e \in Range(report) : e.idx > 0}

\* C3 as stated: every candidate that equals a name variant and a club
\* variant of some target after normalization is in the returned result.
C3_ExactMatchAlwaysIncluded ==
    mpc = "done" =>
        \A t \in 1..Len(target_players) : \A i \in 1..Len(df) :
            ExactMatch(target_players[t], df[i])
                => \E e \in Found : e.row = df[i]

\* C3 amended: a candidate that equals a name variant and a club variant of
\* target T after normalization is in the result as T's record, unless an
\* earlier row of the table matches T on name and club: then that earlier
\* row is T's record.
C3_ExactMatchIncludedUnlessEarlier ==
    mpc = "done" =>
        \A t \in 1..Len(target_players) : \A i \in 1..Len(df) :
            ExactMatch(target_players[t], df[i])
                => \E e \in Found :
                       /\ e.target = t
                       /\ \/ e.idx = i
                          \/ /\ e.idx < i
                             /\ NameRule(target_players[t], df[e.idx])
                             /\ ClubRule(target_players[t], df[e.idx])

\* the search is over; a row that equals the target's alternate name "c."
\* only after normalization, at the target's club, was selected after a
\* row that did not match was passed over
C3_Witness ==
    /\ mpc = "done"
    /\ \E e \in Found :
           /\ e.idx = 2
           /\ target_players[e.target] = TargetAb
           /\ e.row = [Player |-> Str(<<"c">>), Squad |-> Str(<<"B">>)]

\* C4: every returned candidate matches its target on name and on club; a
\* row reported as a name-only or club-only near-miss for a target is not
\* returned for that target.
C4_Soundness ==
    /\ \A e \in Found :
           /\ e.row = df[e.idx]
           /\ NameRule(target_players[e.target], e.row)
           /\ ClubRule(target_players[e.target], e.row)
    /\ \A r \in Examined :
           LET both == /\ NameRule(target_players[r.target], df[r.idx])
                       /\ ClubRule(target_players[r.target], df[r.idx])
           IN  /\ r.out \in {"name_only", "club_only"} => ~both
               /\ ~both => ~\E e \in Found :
                               e.target = r.target /\ e.idx = r.idx

\* the search is over with a name-only and a club-only near-miss reported
\* and a candidate returned
C4_Witness ==
    /\ mpc = "done"
    /\ \E r \in Examined : r.out = "name_only"
    /\ \E r \in Examined : r.out = "club_only"
    /\ Found # {}

\* C5: each target gets at most one record: the first row, in table order,
\* that matches on name and club; no row after it is examined for that
\* target; the records are in target order.
C5_FirstMatchWins ==
    /\ \A j, k \in 1..Len(found_players) :
           j < k => found_players[j].target < found_players[k].target
    /\ \A e \in Found :
           /\ \A i \in 1..(e.idx - 1) :
                  ~(/\ NameRule(target_players[e.target], df[i])
                    /\ ClubRule(target_players[e.target], df[i]))
           /\ examined[e.target] = e.idx
           /\ \A r \in Examined : r.target = e.target => r.idx <= e.idx
    /\ \A t \in 1..Len(examined) :
           (t < ti \/ mpc \in {"targets", "done"}) =>
               \/ \E e \in Found : e.target = t
               \/ /\ examined[t] = Len(df)
                  /\ \A i \in 1..Len(df) :
                         ~(/\ NameRule(target_players[t], df[i])
                           /\ ClubRule(target_players[t], df[i]))

\* two rows match the same target; the search is over and only the first
\* was examined and returned
C5_Witness ==
    /\ mpc = "done"
    /\ Len(df) = 2
    /\ \A i \in 1..2 : NameRule(target_players[1], df[i])
                       /\ ClubRule(target_players[1], df[i])
    /\ \E e \in Found : e.target = 1 /\ e.idx = 1
    /\ examined[1] = 1

\* C6: a row name-matches a target iff some name variant contains, or is
\* contained in, the row's name after normalization; the club likewise.
C6_SymmetricContainment ==
    \A r \in Examined :
        /\ r.out \in {"found", "name_only"}
               <=> NameRule(target_players[r.target], df[r.idx])
        /\ r.out \in {"found", "club_only"}
               <=> ClubRule(target_players[r.target], df[r.idx])

\* a row whose name "a" is contained in the variant "ab", and contains no
\* variant, was examined and name-matched
C6_Witness ==
    \E r \in Examined :
        /\ r.out \in {"found", "name_only"}
        /\ target_players[r.target] = TargetAb
        /\ PlayerText(df[r.idx]) = <<"a">>
        /\ \A v \in TargetNames(TargetAb) :
               ~IsSubstring(normalize_name(v), <<"a">>)

EmptyPlayer(row) == "Player" \notin DOMAIN row \/ row["Player"] = Str(<<>>)
EmptySquad(row) == "Squad" \notin DOMAIN row \/ row["Squad"] = Str(<<>>)

NormInit ==
    /\ npc = "input"
    /\ nIn \in StringsUpTo(NormAlphabet, MaxLen)
    /\ nOnce = <<>>
    /\ nTwice = <<>>
    /\ MatchRest /\ RetryRest /\ ImportRest

NormalizeOnce ==
    /\ npc = "input"
    /\ nOnce' = normalize_name(nIn)
    /\ npc' = "once"
    /\ UNCHANGED <<nIn, nTwice, matchVars, retryVars, importVars>>

NormalizeTwice ==
    /\ npc = "once"
    /\ nTwice' = normalize_name(nOnce)
    /\ npc' = "twice"
    /\ UNCHANGED <<nIn, nOnce, matchVars, retryVars, importVars>>

NormNext == NormalizeOnce \/ NormalizeTwice

SpecNorm == NormInit /\ [][NormNext]_vars

\* C7: normalize_name is idempotent: normalizing the result of a
\* normalization returns that result unchanged.
C7_NormalizeIdempotent == npc = "twice" => nTwice = nOnce

\* an input with an upper-case accented letter, punctuation and padding has
\* been normalized twice, and the first pass changed it
C7_Witness ==
    /\ npc = "twice"
    /\ nIn = <<" ", "A'", ".">>
    /\ nOnce = <<"a">>

====
